---------------------------- MODULE Spec2Model ----------------------------
(***************************************************************************)
(* whatsvector: chat-export line parsing (WhatsappMessage.from_raw), the   *)
(* Dataset built from a file (WhatsappData) and the loaders that persist   *)
(* Datasets (DataLoader, InMemoryDataLoader, QdrantDataLoader).            *)
(*                                                                         *)
(* A Python str is modelled as a sequence of one-character strings, so     *)
(* that the regular expression, str.strip and the date parsing are         *)
(* computed character by character.                                        *)
(***************************************************************************)
EXTENDS Integers, Sequences, FiniteSets, TLC

VARIABLES
    raw_message,   \* from_raw: the argument of the call
    parsed,        \* from_raw: <<>> before the call, then <<what the call produced>>
    file_lines,    \* <<the lines of the file>> right after from_txt_file, else <<>>
    ds,            \* <<>>, or <<the Dataset under observation>>
    built,         \* <<the language and the list the Dataset was built with>>, else <<>>
    loader,        \* per loader: the object its constructor made, and the call's arguments
    pc,            \* per loader: position inside load_data and _load
    idx,           \* per loader: place in wa_files of the file being processed
    data,          \* per loader: <<the Dataset handed to _load>>, <<>> outside _load
    data_storage,  \* per loader: InMemoryDataLoader.data_storage
    outcome,       \* per loader: how each finished load_data call ended
    persisted,     \* per loader: per load_data call, the places of the files persisted
    collection,    \* the vector store: whether the collection exists
    existed,       \* whether the collection existed before any loader ran
    calls,         \* the vector store: the calls it received, in order
    wa_message,    \* <<>>, or <<the fields of the Message under observation>>
    date_cache,    \* the Message's stored message_date: <<>>, or <<the date>>
    last_read,     \* <<>>, or <<the derived value read since the last assignment>>
    client_args,   \* QdrantDataLoader(...): the connection arguments given
    client,        \* <<>>, or <<the arguments AsyncQdrantClient was built with>>
    warnings       \* the warnings logged by the constructor

vars == <<raw_message, parsed, file_lines, ds, built, loader, pc, idx, data,
          data_storage, outcome, persisted, collection, existed, calls,
          wa_message, date_cache, last_read, client_args, client, warnings>>

parseVars == <<raw_message, parsed>>
dataVars == <<file_lines, ds, built>>
loaderVars == <<loader, pc, idx, data, data_storage, outcome, persisted,
                collection, existed, calls>>
messageVars == <<wa_message, date_cache, last_read>>
clientVars == <<client_args, client, warnings>>
objectVars == <<messageVars, clientVars>>

-----------------------------------------------------------------------------
(* Bounds of the model *)

\* longest text after the bracketed timestamp that from_raw is given
MaxTail == 4
\* most physical lines in a file read by from_txt_file
MaxLines == 3
\* most files in a loader's wa_files
MaxFiles == 3
\* most load_data calls on one loader
MaxRuns == 2
\* most calls the vector store refuses
MaxFailures == 1
\* most messages a Dataset is grown to by direct changes of its list
MaxMessages == 2

-----------------------------------------------------------------------------
(* Strings *)

Digits == {"0", "1", "2", "3", "4", "5", "6", "7", "8", "9"}

IsDigit(c) == c \in Digits

DigitVal(c) ==
    CASE c = "0" -> 0 [] c = "1" -> 1 [] c = "2" -> 2 [] c = "3" -> 3
      [] c = "4" -> 4 [] c = "5" -> 5 [] c = "6" -> 6 [] c = "7" -> 7
      [] c = "8" -> 8 [] c = "9" -> 9

\* the characters str.strip() removes (ASCII whitespace)
Whitespace == {" ", "\t", "\n", "\r", "\f"}

Min(S) == CHOOSE x \in S : \A y \in S : x <= y
Max(S) == CHOOSE x \in S : \A y \in S : x >= y

HasNewline(s) == \E i \in 1..Len(s) : s[i] = "\n"

\* str.strip(chars): drop the leading and the trailing characters in chars
StripChars(s, chars) ==
    LET keep == {i \in 1..Len(s) : s[i] \notin chars}
    IN  IF keep = {} THEN <<>> ELSE SubSeq(s, Min(keep), Max(keep))

\* str.strip()
Strip(s) == StripChars(s, Whitespace)

\* Sequences over S of length at most n
SeqsUpTo(S, n) == UNION {[1..k -> S] : k \in 0..n}

-----------------------------------------------------------------------------
(* Exceptions *)

\* WhatsVectorException.__init__: the reason is kept
WhatsVectorException(kind, reason) ==
    [ok |-> FALSE, exc |-> kind, reason |-> reason]

\* InvalidRowError.__init__: the row is kept, the reason is prefixed
InvalidRowError(row, reason) ==
    [ok |-> FALSE, exc |-> "InvalidRowError", row |-> row,
     reason |-> <<"Invalid row: ", reason>>]

-----------------------------------------------------------------------------
(* WhatsappMessage *)

WhatsappMessage(timestamp, sender, content) ==
    [timestamp |-> timestamp, sender |-> sender, content |-> content]

\* \[(\d{2}/\d{2}/\d{2}), (\d{2}:\d{2}:\d{2})\] and the blank that follows: 21 characters
HeadLen == 21

HeadMatches(s) ==
    /\ Len(s) >= HeadLen
    /\ s[1] = "["
    /\ IsDigit(s[2]) /\ IsDigit(s[3]) /\ s[4] = "/"
    /\ IsDigit(s[5]) /\ IsDigit(s[6]) /\ s[7] = "/"
    /\ IsDigit(s[8]) /\ IsDigit(s[9])
    /\ s[10] = "," /\ s[11] = " "
    /\ IsDigit(s[12]) /\ IsDigit(s[13]) /\ s[14] = ":"
    /\ IsDigit(s[15]) /\ IsDigit(s[16]) /\ s[17] = ":"
    /\ IsDigit(s[18]) /\ IsDigit(s[19])
    /\ s[20] = "]" /\ s[21] = " "

\* (.*)$ on the rest of the string: "." is any character but a line feed, and
\* "$" is the end of the string or the place before a line feed that ends it
ContentMatches(rest) ==
    \/ ~HasNewline(rest)
    \/ /\ Len(rest) >= 1
       /\ rest[Len(rest)] = "\n"
       /\ ~HasNewline(SubSeq(rest, 1, Len(rest) - 1))

ContentGroup(rest) ==
    IF ~HasNewline(rest) THEN rest ELSE SubSeq(rest, 1, Len(rest) - 1)

\* the places of the ": " that can end the sender group (.*?)
SenderEnds(s) ==
    {k \in (HeadLen + 1)..(Len(s) - 1) :
        /\ s[k] = ":" /\ s[k + 1] = " "
        /\ ~HasNewline(SubSeq(s, HeadLen + 1, k - 1))
        /\ ContentMatches(SubSeq(s, k + 2, Len(s)))}

\* faulty variant: a greedy sender group
SenderEndLast(s) == Max(SenderEnds(s))
\* the non-greedy choice of the sender group
SenderEnd(s) == Min(SenderEnds(s))

ContentOf(s) == ContentGroup(SubSeq(s, SenderEnd(s) + 2, Len(s)))

\* re.match(pattern, raw_message)
Matches(s) == HeadMatches(s) /\ SenderEnds(s) # {}

from_raw(raw) ==
    IF ~Matches(raw)
    THEN InvalidRowError(raw, "Message does not match expected format.")
    ELSE [ok |-> TRUE,
          msg |-> WhatsappMessage(
                      SubSeq(raw, 2, 9) \o <<",", " ">> \o SubSeq(raw, 12, 19),
                      SubSeq(raw, HeadLen + 1, SenderEnd(raw) - 1),
                      ContentOf(raw))]

-----------------------------------------------------------------------------
(* Inputs of from_raw: a head followed by a tail of at most MaxTail characters *)

HeadValid == <<"[", "0", "1", "/", "0", "2", "/", "2", "3", ",", " ", "1", "0", ":", "1", "5", ":", "3", "0", "]", " ">>
HeadBadDate == <<"[", "3", "1", "/", "0", "4", "/", "2", "3", ",", " ", "1", "0", ":", "1", "5", ":", "3", "0", "]", " ">>
HeadNoOpen == <<"0", "1", "/", "0", "2", "/", "2", "3", ",", " ", "1", "0", ":", "1", "5", ":", "3", "0", "]", " ">>
HeadNoClose == <<"[", "0", "1", "/", "0", "2", "/", "2", "3", ",", " ", "1", "0", ":", "1", "5", ":", "3", "0", " ">>
HeadLetter == <<"[", "0", "a", "/", "0", "2", "/", "2", "3", ",", " ", "1", "0", ":", "1", "5", ":", "3", "0", "]", " ">>
HeadIndented == <<" ", "[", "0", "1", "/", "0", "2", "/", "2", "3", ",", " ", "1", "0", ":", "1", "5", ":", "3", "0", "]", " ">>

Heads == {<<>>, HeadValid, HeadBadDate, HeadNoOpen, HeadNoClose, HeadLetter,
          HeadIndented}

TailChars == {"a", ":", " ", "\n"}

RawLines == {h \o t : h \in Heads, t \in SeqsUpTo(TailChars, MaxTail)}

\* the variables of a part of the program that is not running
IdleParse == raw_message = <<>> /\ parsed = <<>>
IdleData == file_lines = <<>> /\ ds = <<>> /\ built = <<>>
IdleLoaders ==
    /\ loader = <<>> /\ pc = <<>> /\ idx = <<>> /\ data = <<>>
    /\ data_storage = <<>> /\ outcome = <<>> /\ persisted = <<>>
    /\ collection = FALSE /\ existed = FALSE /\ calls = <<>>
IdleMessage == wa_message = <<>> /\ date_cache = <<>> /\ last_read = <<>>
IdleClient == client_args = <<>> /\ client = <<>> /\ warnings = <<>>
IdleObjects == IdleMessage /\ IdleClient

InitParse ==
    /\ raw_message \in RawLines
    /\ parsed = <<>>
    /\ IdleData
    /\ IdleLoaders
    /\ IdleObjects

\* one call WhatsappMessage.from_raw(raw_message)
FromRaw ==
    /\ parsed = <<>>
    /\ parsed' = <<from_raw(raw_message)>>
    /\ UNCHANGED <<raw_message, dataVars, loaderVars, objectVars>>

NextParse == FromRaw

SpecParse == InitParse /\ [][NextParse]_vars

-----------------------------------------------------------------------------
(* Properties of from_raw (SpecParse) *)

\* the heads '[DD/MM/YY, HH:MM:SS] ' among the inputs, and the timestamp each one writes
GrammarHeads == {HeadValid, HeadBadDate}

WrittenTimestamp(h) ==
    IF h = HeadValid
    THEN <<"0", "1", "/", "0", "2", "/", "2", "3", ",", " ", "1", "0", ":", "1", "5", ":", "3", "0">>
    ELSE <<"3", "1", "/", "0", "4", "/", "2", "3", ",", " ", "1", "0", ":", "1", "5", ":", "3", "0">>

HasDelimiter(s) == \E i \in 1..(Len(s) - 1) : s[i] = ":" /\ s[i + 1] = " "

\* raw is h, then a sender of i characters, then ': ', then a content
WrittenAs(raw, h, i) ==
    /\ SubSeq(raw, 1, Len(h)) = h
    /\ SubSeq(raw, Len(h) + i + 1, Len(h) + i + 2) = <<":", " ">>

WrittenSender(raw, h, i) == SubSeq(raw, Len(h) + 1, Len(h) + i)
WrittenContent(raw, h, i) == SubSeq(raw, Len(h) + i + 3, Len(raw))

\* C8: a line '[DD/MM/YY, HH:MM:SS] ' + sender + ': ' + content, with no ': '
\* in the sender and no line break in either part, parses to a Message with
\* exactly that sender, that content (empty included) and the timestamp
\* 'DD/MM/YY, HH:MM:SS'.
C8_RoundTrip ==
    \A h \in GrammarHeads :
        \A i \in 0..(Len(raw_message) - Len(h) - 2) :
            ( /\ parsed # <<>>
              /\ WrittenAs(raw_message, h, i)
              /\ ~HasDelimiter(WrittenSender(raw_message, h, i))
              /\ ~HasNewline(WrittenSender(raw_message, h, i))
              /\ ~HasNewline(WrittenContent(raw_message, h, i)) )
            => parsed[1] = [ok |-> TRUE,
                            msg |-> [timestamp |-> WrittenTimestamp(h),
                                     sender |-> WrittenSender(raw_message, h, i),
                                     content |-> WrittenContent(raw_message, h, i)]]

\* a grammar line with a sender ending in ':' and an empty content was parsed
C8_Witness ==
    /\ parsed # <<>>
    /\ raw_message = HeadValid \o <<"a", ":", ":", " ">>
    /\ parsed[1].ok
    /\ parsed[1].msg.sender = <<"a", ":">>
    /\ parsed[1].msg.content = <<>>

\* the line has the shape of the grammar: a well-formed head, then a text
\* without line break that holds a ': '
IsGrammarLine(raw) ==
    \E h \in GrammarHeads :
        /\ Len(raw) >= Len(h) + 2
        /\ SubSeq(raw, 1, Len(h)) = h
        /\ HasDelimiter(SubSeq(raw, Len(h) + 1, Len(raw)))
        /\ ~HasNewline(raw)

\* C9: for every line that does not match the grammar, from_raw fails with
\* InvalidRowError whose row is the input verbatim and which carries a
\* reason; no Message is returned.
C9_MalformedRow ==
    (parsed # <<>> /\ ~IsGrammarLine(raw_message))
    => /\ ~parsed[1].ok
       /\ parsed[1].exc = "InvalidRowError"
       /\ parsed[1].row = raw_message
       /\ parsed[1].reason # <<>>

-----------------------------------------------------------------------------
(* WhatsappData *)

ImmagineOmessa ==
    <<"i", "m", "m", "a", "g", "i", "n", "e", " ", "o", "m", "e", "s", "s",
      "a">>
VideoOmesso ==
    <<"v", "i", "d", "e", "o", " ", "o", "m", "e", "s", "s", "o">>
AudioOmesso ==
    <<"a", "u", "d", "i", "o", " ", "o", "m", "e", "s", "s", "o">>
DocumentoOmesso ==
    <<"d", "o", "c", "u", "m", "e", "n", "t", "o", " ", "o", "m", "e", "s",
      "s", "o">>
ImageOmitted ==
    <<"i", "m", "a", "g", "e", " ", "o", "m", "i", "t", "t", "e", "d">>
VideoOmitted ==
    <<"v", "i", "d", "e", "o", " ", "o", "m", "i", "t", "t", "e", "d">>
AudioOmitted ==
    <<"a", "u", "d", "i", "o", " ", "o", "m", "i", "t", "t", "e", "d">>
DocumentOmitted ==
    <<"d", "o", "c", "u", "m", "e", "n", "t", " ", "o", "m", "i", "t", "t",
      "e", "d">>

\* a table whose two entries both hold the English strings
KnownPlaceholdersOneEntry(app_language) ==
    <<ImageOmitted, VideoOmitted, AudioOmitted, DocumentOmitted>>

\* KNOWN_NOT_FOUND_PLACEHOLDERS[app_language]; the members of the set, listed
KNOWN_NOT_FOUND_PLACEHOLDERS(app_language) ==
    IF app_language = "it"
    THEN <<ImmagineOmessa, VideoOmesso, AudioOmesso, DocumentoOmesso>>
    ELSE <<ImageOmitted, VideoOmitted, AudioOmitted, DocumentOmitted>>

\* x in a list or a set of strings
InList(x, list) == \E i \in 1..Len(list) : list[i] = x

\* WhatsappData.__init__; NoList stands for not_found_placeholders=None
NoList == <<<<"None">>>>

WhatsappData(messages, app_language, not_found_placeholders) ==
    [messages |-> messages,
     not_found_placeholders |->
         IF not_found_placeholders # NoList
         THEN not_found_placeholders
         ELSE KNOWN_NOT_FOUND_PLACEHOLDERS(app_language)]

\* the list from_txt_file builds from app_language
FilePlaceholders(app_language) ==
    IF app_language = "it"
    THEN <<ImmagineOmessa, VideoOmesso, AudioOmesso, DocumentoOmesso>>
    ELSE <<ImageOmitted, VideoOmitted, AudioOmitted, DocumentOmitted>>

\* faulty variant: the loop ends at the first line that fails to parse
RECURSIVE ReadLinesStopAtError(_, _)
ReadLinesStopAtError(lines, messages) ==
    IF lines = <<>>
    THEN [ok |-> TRUE, messages |-> messages]
    ELSE LET line == Strip(Head(lines) \o <<"\n">>)
             row == from_raw(line)
         IN  IF line = <<>>
             THEN ReadLinesStopAtError(Tail(lines), messages)
             ELSE IF row.ok
             THEN ReadLinesStopAtError(Tail(lines), Append(messages, row.msg))
             ELSE [ok |-> TRUE, messages |-> messages]

\* faulty variant: the InvalidRowError of a line leaves the loop
RECURSIVE ReadLinesRaising(_, _)
ReadLinesRaising(lines, messages) ==
    IF lines = <<>>
    THEN [ok |-> TRUE, messages |-> messages]
    ELSE LET line == Strip(Head(lines) \o <<"\n">>)
             row == from_raw(line)
         IN  IF line = <<>>
             THEN ReadLinesRaising(Tail(lines), messages)
             ELSE IF row.ok
             THEN ReadLinesRaising(Tail(lines), Append(messages, row.msg))
             ELSE row

\* the loop over the lines of the open file: each line comes with its line
\* feed, is stripped, and when not blank is parsed; an InvalidRowError skips
\* the line, any other exception leaves the loop
RECURSIVE ReadLines(_, _)
ReadLines(lines, messages) ==
    IF lines = <<>>
    THEN [ok |-> TRUE, messages |-> messages]
    ELSE LET line == Strip(Head(lines) \o <<"\n">>)
             row == from_raw(line)
         IN  IF line = <<>>
             THEN ReadLines(Tail(lines), messages)
             ELSE IF row.ok
             THEN ReadLines(Tail(lines), Append(messages, row.msg))
             ELSE IF row.exc = "InvalidRowError"
             THEN ReadLines(Tail(lines), messages)
             ELSE row

\* a file of the file system: one that open() or the decoding refuses, or its
\* physical lines
Unreadable == [readable |-> FALSE, lines |-> <<>>]
TextFile(lines) == [readable |-> TRUE, lines |-> lines]

\* WhatsappData.from_txt_file(file_path, app_language)
from_txt_file(file, app_language) ==
    IF ~file.readable
    THEN [ok |-> FALSE, exc |-> "OSError"]
    ELSE LET read == ReadLines(file.lines, <<>>)
         IN  IF read.ok
             THEN [ok |-> TRUE,
                   data |-> WhatsappData(read.messages, app_language,
                                         FilePlaceholders(app_language))]
             ELSE read

\* faulty variant: the test of the comprehension inverted
clean_messagesInverted(d) ==
    SelectSeq(d.messages,
              LAMBDA message : InList(message.content, d.not_found_placeholders))
\* WhatsappData.clean_messages
clean_messages(d) ==
    SelectSeq(d.messages,
              LAMBDA message : ~InList(message.content, d.not_found_placeholders))

\* WhatsappData.total_messages, WhatsappData.total_clean_messages
total_messages(d) == Len(d.messages)
total_clean_messages(d) == Len(clean_messages(d))

-----------------------------------------------------------------------------
(* Inputs of from_txt_file and of WhatsappData: lines, files, messages *)

TextHi == <<"A", ":", " ", "h", "i">>
TextImage == <<"A", ":", " ", "i", "m", "a", "g", "e", " ", "o", "m", "i", "t", "t", "e", "d">>
TextImmagine == <<"B", ":", " ", "i", "m", "m", "a", "g", "i", "n", "e", " ", "o", "m", "e", "s", "s", "a">>
TextYo == <<"A", ":", " ", "y", "o">>
TextNoContent == <<"A", ":", " ">>
TextNotValid == <<"n", "o", "t", " ", "a", " ", "v", "a", "l", "i", "d", " ", "l", "i", "n", "e">>

LineHi == HeadValid \o TextHi
LineImage == HeadValid \o TextImage
LineImmagine == HeadValid \o TextImmagine
LineBadDate == HeadBadDate \o TextYo
LinePadded == <<" ", "\t">> \o LineHi \o <<" ", "\r">>
LineNoContent == HeadValid \o TextNoContent
LineBlank == <<>>
LineSpaces == <<" ", "\t">>

FileLineChoices == {LineHi, LineImage, LineImmagine, LineBadDate, LinePadded,
                    LineNoContent, TextNotValid, LineBlank, LineSpaces}

Languages == {"en", "it"}

TextNearMiss ==
    <<"A", ":", " ", "I", "m", "a", "g", "e", " ", "o", "m", "i", "t", "t", "e", "d">>
LineNearMiss == HeadValid \o TextNearMiss

MessagePool == {from_raw(LineHi).msg, from_raw(LineImage).msg,
                from_raw(LineNearMiss).msg,
                from_raw(LineImmagine).msg}

PlaceholderChoices == {NoList, <<>>, <<<<"h", "i">>>>,
                       <<ImageOmitted, ImageOmitted>>}

InitData ==
    /\ IdleParse
    /\ IdleData
    /\ IdleLoaders
    /\ IdleObjects

\* WhatsappData.from_txt_file on a readable file; when it raises, no Dataset
\* is made
FromTxtFile ==
    /\ ds = <<>>
    /\ file_lines = <<>>
    /\ \E lines \in SeqsUpTo(FileLineChoices, MaxLines), lang \in Languages :
          LET made == from_txt_file(TextFile(lines), lang)
          IN  /\ ds' = IF made.ok THEN <<made.data>> ELSE <<>>
              /\ file_lines' = <<lines>>
              /\ built' = IF made.ok
                          THEN <<[app_language |-> lang, list |-> NoList]>>
                          ELSE <<>>
    /\ UNCHANGED <<parseVars, loaderVars, objectVars>>

\* WhatsappData(messages, app_language, not_found_placeholders)
Construct ==
    /\ ds = <<>>
    /\ \E messages \in SeqsUpTo(MessagePool, 1), lang \in Languages,
          list \in PlaceholderChoices :
          /\ ds' = <<WhatsappData(messages, lang, list)>>
          /\ built' = <<[app_language |-> lang, list |-> list]>>
    /\ file_lines' = <<>>
    /\ UNCHANGED <<parseVars, loaderVars, objectVars>>

\* dataset.messages.append(message): the list is a public attribute
AppendMessage ==
    /\ ds # <<>>
    /\ Len(ds[1].messages) < MaxMessages
    /\ \E message \in MessagePool :
          ds' = <<[ds[1] EXCEPT !.messages = Append(@, message)]>>
    /\ file_lines' = <<>>
    /\ built' = built
    /\ UNCHANGED <<parseVars, loaderVars, objectVars>>

\* del dataset.messages[i]
RemoveMessage ==
    /\ ds # <<>>
    /\ \E i \in 1..Len(ds[1].messages) :
          ds' = <<[ds[1] EXCEPT !.messages =
                      SubSeq(@, 1, i - 1) \o SubSeq(@, i + 1, Len(@))]>>
    /\ file_lines' = <<>>
    /\ built' = built
    /\ UNCHANGED <<parseVars, loaderVars, objectVars>>

\* dataset.not_found_placeholders = list
SetPlaceholders ==
    /\ ds # <<>>
    /\ \E list \in PlaceholderChoices \ {NoList} :
          ds' = <<[ds[1] EXCEPT !.not_found_placeholders = list]>>
    /\ file_lines' = <<>>
    /\ built' = <<>>
    /\ UNCHANGED <<parseVars, loaderVars, objectVars>>

NextData ==
    \/ FromTxtFile
    \/ Construct
    \/ AppendMessage
    \/ RemoveMessage
    \/ SetPlaceholders

SpecData == InitData /\ [][NextData]_vars

-----------------------------------------------------------------------------
(* Properties of WhatsappData (SpecData) *)

\* the stripped lines of a file that are not blank and parse, in file order
ParsingLines(lines) ==
    SelectSeq([i \in 1..Len(lines) |-> Strip(lines[i])],
              LAMBDA l : l # <<>> /\ from_raw(l).ok)

\* C6: from_txt_file raises no row error, and the messages of the Dataset it
\* returns are the parse results of the stripped, non-blank lines that parse,
\* in file order, duplicates kept; a line that fails to parse changes nothing
\* else.
C6_FileOrder ==
    file_lines # <<>>
    => /\ ds # <<>>
       /\ ds[1].messages =
              [j \in 1..Len(ParsingLines(file_lines[1])) |->
                  from_raw(ParsingLines(file_lines[1])[j]).msg]

\* a file whose second line fails to parse, between two lines that strip to
\* the same text, was read: both copies are kept, in order
C6_Witness ==
    /\ file_lines = <<<<LinePadded, TextNotValid, LineHi>>>>
    /\ ds # <<>>
    /\ ds[1].messages = <<from_raw(LineHi).msg, from_raw(LineHi).msg>>

\* the places of the messages whose content is one of the placeholders
PlaceholderPlaces(d) ==
    {i \in 1..Len(d.messages) :
        d.messages[i].content \in
            {d.not_found_placeholders[k] : k \in 1..Len(d.not_found_placeholders)}}

\* C7: in every state of a Dataset, clean_messages is the order-preserving
\* filter of messages by 'content not in the placeholders' (so a sub-sequence
\* of messages), and total_clean_messages = total_messages - the number of
\* messages whose content is a placeholder.
C7_CleanIsFilter ==
    ds # <<>>
    => LET d == ds[1]
           clean == clean_messages(d)
           kept == (1..Len(d.messages)) \ PlaceholderPlaces(d)
       IN  /\ \E f \in [1..Len(clean) -> 1..Len(d.messages)] :
                 /\ \A j, k \in 1..Len(clean) : j < k => f[j] < f[k]
                 /\ {f[j] : j \in 1..Len(clean)} = kept
                 /\ \A j \in 1..Len(clean) : clean[j] = d.messages[f[j]]
           /\ total_clean_messages(d) =
                  total_messages(d) - Cardinality(PlaceholderPlaces(d))

\* a Dataset whose list and placeholders were both changed after construction
\* holds one placeholder message and one clean message
C7_Witness ==
    /\ ds # <<>>
    /\ file_lines = <<>>
    /\ ds[1].not_found_placeholders = <<<<"h", "i">>>>
    /\ ds[1].messages = <<from_raw(LineImage).msg, from_raw(LineHi).msg>>
    /\ clean_messages(ds[1]) = <<from_raw(LineImage).msg>>

-----------------------------------------------------------------------------
(* WhatsappMessage.message_date *)

\* str.split(",")[0]
BeforeComma(s) ==
    LET commas == {i \in 1..Len(s) : s[i] = ","}
    IN  IF commas = {} THEN s ELSE SubSeq(s, 1, Min(commas) - 1)

NonZeroDigits == Digits \ {"0"}

\* the directive %d: 3[0-1] | [1-2]\d | 0[1-9] | [1-9] | " "[1-9]
IsDayText(d) ==
    \/ Len(d) = 1 /\ d[1] \in NonZeroDigits
    \/ /\ Len(d) = 2
       /\ \/ d[1] = "3" /\ d[2] \in {"0", "1"}
          \/ d[1] \in {"1", "2"} /\ IsDigit(d[2])
          \/ d[1] \in {"0", " "} /\ d[2] \in NonZeroDigits

\* the directive %m: 1[0-2] | 0[1-9] | [1-9]
IsMonthText(m) ==
    \/ Len(m) = 1 /\ m[1] \in NonZeroDigits
    \/ /\ Len(m) = 2
       /\ \/ m[1] = "1" /\ m[2] \in {"0", "1", "2"}
          \/ m[1] = "0" /\ m[2] \in NonZeroDigits

\* the directive %y: \d\d
IsYearText(y) == Len(y) = 2 /\ IsDigit(y[1]) /\ IsDigit(y[2])

NumberOf(text) ==
    IF Len(text) = 1
    THEN DigitVal(text[1])
    ELSE (IF text[1] = " " THEN 0 ELSE 10 * DigitVal(text[1])) + DigitVal(text[2])

\* a two-digit year: 00..68 is 2000..2068, 69..99 is 1969..1999
FullYear(yy) == IF yy <= 68 THEN 2000 + yy ELSE 1900 + yy

IsLeap(year) == year % 4 = 0 /\ (year % 100 # 0 \/ year % 400 = 0)

DaysInMonth(month, year) ==
    IF month = 2 THEN (IF IsLeap(year) THEN 29 ELSE 28)
    ELSE IF month \in {4, 6, 9, 11} THEN 30 ELSE 31

\* datetime.strptime(date_str, "%d/%m/%y"): a date, or ValueError when the
\* text does not have the format or names no day of the calendar
strptime(date_str) ==
    LET slashes == {i \in 1..Len(date_str) : date_str[i] = "/"}
        s1 == Min(slashes)
        s2 == Max(slashes)
        d == SubSeq(date_str, 1, s1 - 1)
        m == SubSeq(date_str, s1 + 1, s2 - 1)
        y == SubSeq(date_str, s2 + 1, Len(date_str))
    IN  IF /\ Cardinality(slashes) = 2
           /\ IsDayText(d) /\ IsMonthText(m) /\ IsYearText(y)
           /\ NumberOf(d) <= DaysInMonth(NumberOf(m), FullYear(NumberOf(y)))
        THEN [ok |-> TRUE, year |-> FullYear(NumberOf(y)),
              month |-> NumberOf(m), day |-> NumberOf(d)]
        ELSE [ok |-> FALSE, exc |-> "ValueError"]

\* WhatsappMessage.message_date
message_date(message) ==
    strptime(StripChars(BeforeComma(message.timestamp), {"[", "]", " "}))

\* datetime.toordinal(): the days from 1 January of year 1, which is day 1
DaysBeforeYear(year) ==
    LET y == year - 1
    IN  y * 365 + (y \div 4) - (y \div 100) + (y \div 400)

RECURSIVE DaysBeforeMonth(_, _)
DaysBeforeMonth(year, month) ==
    IF month = 1
    THEN 0
    ELSE DaysBeforeMonth(year, month - 1) + DaysInMonth(month - 1, year)

toordinal(date) ==
    DaysBeforeYear(date.year) + DaysBeforeMonth(date.year, date.month)
        + date.day

\* datetime.weekday(): Monday is 0
weekday(date) == (toordinal(date) + 6) % 7

\* strftime %A and %B: the names of the C locale
DayNames ==
    <<<<"M", "o", "n", "d", "a", "y">>,
      <<"T", "u", "e", "s", "d", "a", "y">>,
      <<"W", "e", "d", "n", "e", "s", "d", "a", "y">>,
      <<"T", "h", "u", "r", "s", "d", "a", "y">>,
      <<"F", "r", "i", "d", "a", "y">>,
      <<"S", "a", "t", "u", "r", "d", "a", "y">>,
      <<"S", "u", "n", "d", "a", "y">>>>

MonthNames ==
    <<<<"J", "a", "n", "u", "a", "r", "y">>,
      <<"F", "e", "b", "r", "u", "a", "r", "y">>,
      <<"M", "a", "r", "c", "h">>,
      <<"A", "p", "r", "i", "l">>,
      <<"M", "a", "y">>,
      <<"J", "u", "n", "e">>,
      <<"J", "u", "l", "y">>,
      <<"A", "u", "g", "u", "s", "t">>,
      <<"S", "e", "p", "t", "e", "m", "b", "e", "r">>,
      <<"O", "c", "t", "o", "b", "e", "r">>,
      <<"N", "o", "v", "e", "m", "b", "e", "r">>,
      <<"D", "e", "c", "e", "m", "b", "e", "r">>>>

DigitChar(n) == <<"0", "1", "2", "3", "4", "5", "6", "7", "8", "9">>[n + 1]

\* strftime %d: two digits
TwoDigits(n) == <<DigitChar(n \div 10), DigitChar(n % 10)>>

\* strftime %Y, for the years %y gives (1969 to 2068)
FourDigits(n) == TwoDigits(n \div 100) \o TwoDigits(n % 100)

\* date.strftime("%A, %d %B %Y")
strftime(date) ==
    DayNames[weekday(date) + 1] \o <<",", " ">> \o TwoDigits(date.day)
        \o <<" ">> \o MonthNames[date.month] \o <<" ">>
        \o FourDigits(date.year)

SenderLabel == <<"S", "e", "n", "d", "e", "r", ":", " ">>
WhenLabel == <<"\n", "W", "h", "e", "n", ":", " ">>
MessageLabel == <<"\n", "M", "e", "s", "s", "a", "g", "e", ":", " ">>

\* the f-string of rich_content, for the date that self.message_date gave;
\* the ValueError of message_date goes through
RichText(message, date) ==
    IF date.ok
    THEN [ok |-> TRUE,
          text |-> SenderLabel \o message.sender \o WhenLabel
                       \o strftime(date) \o MessageLabel
                       \o message.content]
    ELSE date

\* WhatsappMessage.rich_content of a Message whose message_date was not
\* stored before its fields were last assigned
rich_content(message) == RichText(message, message_date(message))

-----------------------------------------------------------------------------
(* DataLoader and its two implementations *)

\* DataLoader.__init__(self, wa_files, *args, raise_errors=False, **kwargs):
\* args are the further positional arguments, kwargs the keyword arguments
\* given by name
DataLoader(wa_files, args, kwargs) ==
    [wa_files |-> wa_files,
     raise_errors |-> IF "raise_errors" \in DOMAIN kwargs
                      THEN kwargs["raise_errors"]
                      ELSE FALSE]

NoKwargs == [k \in {} |-> FALSE]

\* InMemoryDataLoader.__init__ and QdrantDataLoader.__init__ both call
\* super().__init__(wa_files, raise_errors, *args, **kwargs)
InMemoryDataLoader(wa_files, raise_errors) ==
    DataLoader(wa_files, <<raise_errors>>, NoKwargs)

QdrantDataLoader(wa_files, raise_errors) ==
    DataLoader(wa_files, <<raise_errors>>, NoKwargs)

\* faulty variant: except Exception
HandlerCatchAll(exc, raise_errors) ==
    IF raise_errors THEN "raise" ELSE "continue"
\* faulty variant: the clause also catches the client's exceptions
HandlerServiceLenient(exc, raise_errors) ==
    IF exc \in {"InvalidRowError", "ServiceError"}
    THEN (IF raise_errors THEN "raise" ELSE "continue")
    ELSE "raise"
\* the except clause of load_data: what becomes of an exception raised by
\* from_txt_file or by _load
Handler(exc, raise_errors) ==
    IF exc = "InvalidRowError"
    THEN (IF raise_errors THEN "raise" ELSE "continue")
    ELSE "raise"

\* faulty variant: a Dataset already stored is not stored again
StoreUnlessPresent(storage, wa_data) ==
    IF \E i \in 1..Len(storage) : storage[i] = wa_data
    THEN storage
    ELSE Append(storage, wa_data)
\* InMemoryDataLoader._load
Store(storage, wa_data) == Append(storage, wa_data)

\* faulty variant: the answer of the check is ignored
AlwaysCreate(exists) == TRUE
\* faulty variant: the collection is created when it is there
MustCreateInverted(exists) == exists
\* QdrantDataLoader._load: whether create_collection is called after the check
MustCreate(exists) == ~exists

\* QdrantDataLoader._load: building the payloads reads message_date of every
\* clean message, which raises ValueError on a date that is none
MetadataRaises(wa_data) ==
    \E i \in 1..Len(clean_messages(wa_data)) :
        ~message_date(clean_messages(wa_data)[i]).ok

\* QdrantDataLoader._load: the payload of one message
Metadata(msg) ==
    [sender |-> msg.sender,
     when |-> strftime(message_date(msg)),
     content |-> msg.content,
     document |-> rich_content(msg).text]

\* a metadata list with one entry for every message of the Dataset
MetadataOfAllMessages(wa_data) ==
    [i \in 1..Len(wa_data.messages) |-> Metadata(wa_data.messages[i])]

\* QdrantDataLoader._load: metadata, one entry for every clean message
MetadataList(wa_data) ==
    [i \in 1..Len(clean_messages(wa_data)) |->
        Metadata(clean_messages(wa_data)[i])]

\* QdrantDataLoader._load: the texts of the models.Document list
Vectors(wa_data) ==
    [i \in 1..Len(clean_messages(wa_data)) |->
        rich_content(clean_messages(wa_data)[i]).text]

\* the arguments of upload_collection
UploadArgs(wa_data) ==
    [vectors |-> Vectors(wa_data), payload |-> MetadataList(wa_data),
     wait |-> TRUE]

\* faulty variant: the Italian strings by default
ItalianByDefault == "it"
\* from_txt_file(file_path, app_language="en"): load_data names no language
DefaultLanguage == "en"

-----------------------------------------------------------------------------
(* The loaders at work: load_data, and _load with its calls to the store *)

FileChat == TextFile(<<LineHi, LineImage, LineImmagine>>)
FileNoisy == TextFile(<<TextNotValid, LinePadded>>)
FileBadDate == TextFile(<<LineBadDate>>)

FileChoices == {Unreadable, FileChat, FileNoisy, FileBadDate}

\* a loader as constructed: its class, the raise_errors its constructor was
\* given, and the attributes the constructor set
NewLoader(kind, wa_files, raise_errors) ==
    [kind |-> kind,
     given |-> raise_errors,
     self |-> IF kind = "memory"
              THEN InMemoryDataLoader(wa_files, raise_errors)
              ELSE QdrantDataLoader(wa_files, raise_errors)]

\* WhatsappData.from_txt_file(wa_file) as load_data calls it, worked out once
\* for each file
ReadFile ==
    [file \in FileChoices |-> from_txt_file(file, DefaultLanguage)]

LoaderChoices ==
    {NewLoader(kind, wa_files, raise_errors) :
        kind \in {"memory", "qdrant"},
        wa_files \in SeqsUpTo(FileChoices, MaxFiles),
        raise_errors \in BOOLEAN}

\* n loaders after construction, each one of choices
InitLoadersFrom(n, choices) ==
    /\ loader \in [1..n -> choices]
    /\ pc = [l \in 1..n |-> "idle"]
    /\ idx = [l \in 1..n |-> 0]
    /\ data = [l \in 1..n |-> <<>>]
    /\ data_storage = [l \in 1..n |-> <<>>]
    /\ outcome = [l \in 1..n |-> <<>>]
    /\ persisted = [l \in 1..n |-> <<>>]
    /\ collection \in BOOLEAN
    /\ (\A l \in 1..n : loader[l].kind = "memory") => collection = FALSE
    /\ existed = collection
    /\ calls = <<>>

InitLoaders(n) == InitLoadersFrom(n, LoaderChoices)

Init ==
    /\ IdleParse
    /\ IdleData
    /\ IdleObjects
    /\ InitLoaders(1)

Loaders == DOMAIN loader

\* the load_data call under way, counted from 1
Run(l) == Len(outcome[l]) + 1

Failures == Cardinality({c \in 1..Len(calls) : ~calls[c].ok})

Returned == [result |-> "returned", exc |-> "", at |-> 0]
Raised(exc, at) == [result |-> "raised", exc |-> exc, at |-> at]

\* args is <<>>, or <<the arguments of upload_collection>>
Call(op, l, ok, args) ==
    [op |-> op, by |-> l, run |-> Run(l), file |-> idx[l], ok |-> ok,
     args |-> args]

\* an exception reaches the except clause of load_data while file idx[l] is
\* processed: the loop goes on with the next file, or load_data raises
Except(l, exc) ==
    IF Handler(exc, loader[l].self.raise_errors) = "continue"
    THEN /\ pc' = [pc EXCEPT ![l] = "next"]
         /\ idx' = [idx EXCEPT ![l] = @ + 1]
         /\ outcome' = outcome
         /\ data' = [data EXCEPT ![l] = <<>>]
    ELSE /\ pc' = [pc EXCEPT ![l] = "idle"]
         /\ idx' = idx
         /\ outcome' = [outcome EXCEPT ![l] = Append(@, Raised(exc, idx[l]))]
         /\ data' = [data EXCEPT ![l] = <<>>]

\* _load returned: the file is persisted, the loop goes on
Loaded(l) ==
    /\ pc' = [pc EXCEPT ![l] = "next"]
    /\ idx' = [idx EXCEPT ![l] = @ + 1]
    /\ outcome' = outcome
    /\ data' = [data EXCEPT ![l] = <<>>]
    /\ persisted' = [persisted EXCEPT ![l][Run(l)] = @ \cup {idx[l]}]

\* QdrantDataLoader._load from the end of the collection check or creation
\* to the upload call: the payloads are built
BuildPayloads(l) ==
    IF MetadataRaises(data[l][1])
    THEN Except(l, "ValueError")
    ELSE /\ pc' = [pc EXCEPT ![l] = "upload"]
         /\ UNCHANGED <<idx, outcome, data>>

\* loader.load_data() is called
LoadData(l) ==
    /\ pc[l] = "idle"
    /\ Len(outcome[l]) < MaxRuns
    /\ pc' = [pc EXCEPT ![l] = "next"]
    /\ idx' = [idx EXCEPT ![l] = 1]
    /\ persisted' = [persisted EXCEPT ![l] = Append(@, {})]
    /\ UNCHANGED <<parseVars, dataVars, objectVars, loader, data,
                   data_storage, outcome, collection, existed, calls>>

\* the for loop has no file left: load_data returns
Return(l) ==
    /\ pc[l] = "next"
    /\ idx[l] > Len(loader[l].self.wa_files)
    /\ pc' = [pc EXCEPT ![l] = "idle"]
    /\ outcome' = [outcome EXCEPT ![l] = Append(@, Returned)]
    /\ UNCHANGED <<parseVars, dataVars, objectVars, loader, idx, data,
                   data_storage, persisted, collection, existed, calls>>

\* the next file is read by from_txt_file, which raises
ReadFails(l) ==
    /\ pc[l] = "next"
    /\ idx[l] <= Len(loader[l].self.wa_files)
    /\ LET made == ReadFile[loader[l].self.wa_files[idx[l]]]
       IN  /\ ~made.ok
           /\ Except(l, made.exc)
    /\ UNCHANGED <<parseVars, dataVars, objectVars, loader, data_storage,
                   persisted, collection, existed, calls>>

\* InMemoryDataLoader: the next file is read and its Dataset stored
ReadAndStore(l) ==
    /\ pc[l] = "next"
    /\ loader[l].kind = "memory"
    /\ idx[l] <= Len(loader[l].self.wa_files)
    /\ LET made == ReadFile[loader[l].self.wa_files[idx[l]]]
       IN  /\ made.ok
           /\ data_storage' = [data_storage EXCEPT ![l] = Store(@, made.data)]
    /\ Loaded(l)
    /\ UNCHANGED <<parseVars, dataVars, objectVars, loader, collection,
                   existed, calls>>

\* QdrantDataLoader: the next file is read and _load awaits collection_exists
ReadAndCheck(l) ==
    /\ pc[l] = "next"
    /\ loader[l].kind = "qdrant"
    /\ idx[l] <= Len(loader[l].self.wa_files)
    /\ LET made == ReadFile[loader[l].self.wa_files[idx[l]]]
       IN  /\ made.ok
           /\ data' = [data EXCEPT ![l] = <<made.data>>]
    /\ pc' = [pc EXCEPT ![l] = "exists"]
    /\ UNCHANGED <<parseVars, dataVars, objectVars, loader, idx, data_storage,
                   outcome, persisted, collection, existed, calls>>

\* the store answers collection_exists, or refuses the call
CollectionExists(l) ==
    /\ pc[l] = "exists"
    /\ \E ok \in BOOLEAN :
          /\ ~ok => Failures < MaxFailures
          /\ calls' = Append(calls, Call("collection_exists", l, ok, <<>>))
          /\ IF ~ok
             THEN Except(l, "ServiceError")
             ELSE IF MustCreate(collection)
             THEN /\ pc' = [pc EXCEPT ![l] = "create"]
                  /\ UNCHANGED <<idx, outcome, data>>
             ELSE BuildPayloads(l)
    /\ UNCHANGED <<parseVars, dataVars, objectVars, loader, data_storage,
                   persisted, collection, existed>>

\* the store creates the collection, or refuses the call
CreateCollection(l) ==
    /\ pc[l] = "create"
    /\ \E ok \in BOOLEAN :
          /\ ~ok => Failures < MaxFailures
          /\ calls' = Append(calls, Call("create_collection", l, ok, <<>>))
          /\ IF ~ok
             THEN /\ Except(l, "ServiceError")
                  /\ collection' = collection
             ELSE /\ collection' = TRUE
                  /\ BuildPayloads(l)
    /\ UNCHANGED <<parseVars, dataVars, objectVars, loader, data_storage,
                   persisted, existed>>

\* the store takes the upload of the clean messages and acknowledges it, or
\* refuses the call
UploadCollection(l) ==
    /\ pc[l] = "upload"
    /\ \E ok \in BOOLEAN :
          /\ ~ok => Failures < MaxFailures
          /\ calls' = Append(calls, Call("upload_collection", l, ok,
                                         <<UploadArgs(data[l][1])>>))
          /\ IF ~ok
             THEN /\ Except(l, "ServiceError")
                  /\ persisted' = persisted
             ELSE Loaded(l)
    /\ UNCHANGED <<parseVars, dataVars, objectVars, loader, data_storage,
                   collection, existed>>

Next ==
    \/ \E l \in Loaders : LoadData(l)
    \/ \E l \in Loaders : Return(l)
    \/ \E l \in Loaders : ReadFails(l)
    \/ \E l \in Loaders : ReadAndStore(l)
    \/ \E l \in Loaders : ReadAndCheck(l)
    \/ \E l \in Loaders : CollectionExists(l)
    \/ \E l \in Loaders : CreateCollection(l)
    \/ \E l \in Loaders : UploadCollection(l)

Spec == Init /\ [][Next]_vars

\* two loaders at work on the same collection, each running load_data once:
\* either may be resumed at each of its await points
TwoLoaderChoices ==
    {NewLoader(kind, wa_files, FALSE) :
        kind \in {"memory", "qdrant"},
        wa_files \in {<<Unreadable>>, <<FileChat, FileChat>>}}

InitTwo ==
    /\ IdleParse
    /\ IdleData
    /\ IdleObjects
    /\ InitLoadersFrom(2, TwoLoaderChoices)

\* the one load_data call of loader l
LoadDataOnce(l) ==
    /\ outcome[l] = <<>>
    /\ LoadData(l)

NextTwo ==
    \/ \E l \in Loaders : LoadDataOnce(l)
    \/ \E l \in Loaders : Return(l)
    \/ \E l \in Loaders : ReadFails(l)
    \/ \E l \in Loaders : ReadAndStore(l)
    \/ \E l \in Loaders : ReadAndCheck(l)
    \/ \E l \in Loaders : CollectionExists(l)
    \/ \E l \in Loaders : CreateCollection(l)
    \/ \E l \in Loaders : UploadCollection(l)

SpecTwo == InitTwo /\ [][NextTwo]_vars

-----------------------------------------------------------------------------
(* Properties of the loaders (Spec) *)

Files(l) == loader[l].self.wa_files

UnreadablePlaces(l) == {i \in 1..Len(Files(l)) : ~Files(l)[i].readable}

CallsOf(op) == {c \in 1..Len(calls) : calls[c].op = op}

SamePersist(c1, c2) ==
    /\ calls[c1].by = calls[c2].by
    /\ calls[c1].run = calls[c2].run
    /\ calls[c1].file = calls[c2].file

RECURSIVE TotalPersisted(_)
TotalPersisted(sets) ==
    IF sets = <<>> THEN 0
    ELSE Cardinality(Head(sets)) + TotalPersisted(Tail(sets))

\* C1: with raise_errors false, load_data over a list with unreadable files
\* persists the Datasets of all the other files and returns normally: no
\* file-level error propagates.
C1_LenientSkipsUnreadable ==
    \A l \in Loaders :
        ~loader[l].given
        => \A r \in 1..Len(outcome[l]) :
               /\ outcome[l][r].exc # "OSError"
               /\ outcome[l][r].result = "returned"
                  => persisted[l][r] =
                         (1..Len(Files(l))) \ UnreadablePlaces(l)

\* C2: with raise_errors true, load_data aborts at the first file-level
\* failure: the error propagates, the failing file and every later file are
\* never persisted, and what was persisted for the earlier files stays.
C2_StrictAbortsAtFirstFailure ==
    \A l \in Loaders :
        loader[l].given
        => /\ \A r \in 1..Len(persisted[l]) :
                 \A i \in persisted[l][r] :
                     \A j \in 1..i : Files(l)[j].readable
           /\ \A r \in 1..Len(outcome[l]) :
                 /\ outcome[l][r].result = "returned"
                    => UnreadablePlaces(l) = {}
                 /\ outcome[l][r].exc = "OSError"
                    => /\ outcome[l][r].at = Min(UnreadablePlaces(l))
                       /\ persisted[l][r] = 1..(outcome[l][r].at - 1)
           /\ loader[l].kind = "memory"
              => Len(data_storage[l]) = TotalPersisted(persisted[l])

\* a strict in-memory loader met an unreadable second file of three: the
\* call raised there, the first file's Dataset is stored, the third is not
C2_Witness ==
    \E l \in Loaders :
        /\ loader[l].given
        /\ loader[l].kind = "memory"
        /\ Files(l) = <<FileChat, Unreadable, FileNoisy>>
        /\ outcome[l] = <<Raised("OSError", 2)>>
        /\ persisted[l] = <<{1}>>
        /\ Len(data_storage[l]) = 1

\* C3: over any sequence of persists of one vector-store loader, with a
\* store whose create_collection succeeds: no create_collection call when
\* the collection existed at the start; otherwise at most one, and exactly
\* one before every upload call; in every persist the existence check
\* comes before the upload.
C3_CreateOnce ==
    (\A c \in CallsOf("create_collection") : calls[c].ok)
    => /\ existed => CallsOf("create_collection") = {}
       /\ Cardinality(CallsOf("create_collection")) <= 1
       /\ ~existed
          => \A u \in CallsOf("upload_collection") :
                 \E c \in CallsOf("create_collection") : c < u
       /\ \A u \in CallsOf("upload_collection") :
             \E c \in CallsOf("collection_exists") :
                 c < u /\ SamePersist(c, u)

\* a fresh collection was loaded twice: one create_collection call, and an
\* acknowledged upload in the first and in the second load_data call
C3_Witness ==
    /\ ~existed
    /\ Cardinality(CallsOf("create_collection")) = 1
    /\ \A c \in 1..Len(calls) : calls[c].ok
    /\ \E u1, u2 \in CallsOf("upload_collection") :
          calls[u1].run = 1 /\ calls[u2].run = 2

\* from_txt_file of each file, with the language left to its default
FromFile == [file \in FileChoices |-> from_txt_file(file, "en")]

\* the Datasets of the files of loader l, in input order
DatasetsOf(l) ==
    [i \in 1..Len(Files(l)) |-> FromFile[Files(l)[i]].data]

\* C4: the files are processed in input order and file i is persisted before
\* file i+1 is read; on an in-memory loader whose files are all readable the
\* storage grows by one Dataset per file in input order, so after k calls of
\* load_data it holds k full copies (nothing is deduplicated or replaced).
C4_InOrderNoDedup ==
    \A l \in Loaders :
        /\ pc[l] # "idle" => persisted[l][Run(l)] = 1..(idx[l] - 1)
        /\ (loader[l].kind = "memory" /\ UnreadablePlaces(l) = {})
           => LET n == Len(Files(l))
                  running == IF pc[l] = "idle" THEN 0 ELSE idx[l] - 1
              IN  data_storage[l] =
                      [k \in 1..(n * Len(outcome[l]) + running) |->
                          DatasetsOf(l)[((k - 1) % n) + 1]]

\* an in-memory loader ran load_data twice on two readable files: four
\* Datasets are stored
C4_Witness ==
    \E l \in Loaders :
        /\ loader[l].kind = "memory"
        /\ Files(l) = <<FileChat, FileNoisy>>
        /\ outcome[l] = <<Returned, Returned>>
        /\ Len(data_storage[l]) = 4
        /\ data_storage[l][3] = data_storage[l][1]

\* C5: a refused vector-store call makes load_data raise, whatever
\* raise_errors is: the call of load_data ends there with the error, no
\* further call is made in it (no retry, no later file), the file is not
\* persisted; and no Dataset is uploaded twice.
C5_ServiceFailurePropagates ==
    /\ \A c \in 1..Len(calls) :
          ~calls[c].ok
          => LET l == calls[c].by
                 r == calls[c].run
             IN  /\ Len(outcome[l]) >= r
                 /\ outcome[l][r] = Raised("ServiceError", calls[c].file)
                 /\ \A c2 \in 1..Len(calls) :
                       (calls[c2].by = l /\ calls[c2].run = r) => c2 <= c
                 /\ \A i \in persisted[l][r] : i < calls[c].file
    /\ \A u1, u2 \in CallsOf("upload_collection") :
          SamePersist(u1, u2) => u1 = u2

\* a loader given raise_errors=False had the upload of its first file
\* refused: load_data raised, the second file was never touched
C5_Witness ==
    \E l \in Loaders :
        /\ ~loader[l].given
        /\ Files(l) = <<FileChat, FileNoisy>>
        /\ outcome[l] = <<Raised("ServiceError", 1)>>
        /\ persisted[l] = <<{}>>
        /\ calls[Len(calls)].op = "upload_collection"
        /\ ~calls[Len(calls)].ok

HasRealDates(wa_data) ==
    \A i \in 1..Len(wa_data.messages) : message_date(wa_data.messages[i]).ok

\* C10: a line that matches the grammar but whose date is no calendar date is
\* left out of the Dataset by from_txt_file, so no Message with such a date
\* reaches a persist operation.
C10_NoInvalidDateReachesPersist ==
    \A l \in Loaders :
        /\ data[l] # <<>> => HasRealDates(data[l][1])
        /\ \A k \in 1..Len(data_storage[l]) : HasRealDates(data_storage[l][k])


(***************************************************************************)
(* The placeholder list a Dataset is built with                            *)
(***************************************************************************)

\* C11: for a Dataset built with language L and no explicit list, a message
\* of the Dataset is missing from clean_messages exactly when its content is
\* one of the four placeholder strings of L's table entry, and it is still in
\* messages; when an explicit list is given, that list is the one stored and
\* the one filtered with.
C11_PlaceholdersOfLanguage ==
    (ds # <<>> /\ built # <<>>)
    => LET d == ds[1]
           L == built[1].app_language
           given == built[1].list
           entry == IF L = "it"
                    THEN {ImmagineOmessa, VideoOmesso, AudioOmesso,
                          DocumentoOmesso}
                    ELSE {ImageOmitted, VideoOmitted, AudioOmitted,
                          DocumentOmitted}
           used == IF given = NoList
                   THEN entry
                   ELSE {given[k] : k \in 1..Len(given)}
           clean == clean_messages(d)
       IN  /\ given # NoList => d.not_found_placeholders = given
           /\ given = NoList =>
                  {d.not_found_placeholders[k] :
                       k \in 1..Len(d.not_found_placeholders)} = entry
           /\ \A i \in 1..Len(d.messages) :
                  (~ InList(d.messages[i], clean))
                      <=> d.messages[i].content \in used
           /\ \A j \in 1..Len(clean) : InList(clean[j], d.messages)

\* a Dataset built for Italian without a list holds 'immagine omessa' and
\* 'image omitted': only the second is clean, both are in messages
C11_Witness ==
    /\ built = <<[app_language |-> "it", list |-> NoList]>>
    /\ ds # <<>>
    /\ ds[1].messages = <<from_raw(LineImmagine).msg, from_raw(LineImage).msg>>
    /\ clean_messages(ds[1]) = <<from_raw(LineImage).msg>>

(***************************************************************************)
(* What the vector-store loader uploads                                    *)
(***************************************************************************)

\* the upload calls issued for file f in run r of loader l
UploadsFor(l, r, f) ==
    {i \in 1..Len(calls) : /\ calls[i].op = "upload_collection"
                           /\ calls[i].by = l
                           /\ calls[i].run = r
                           /\ calls[i].file = f}

\* what C12 expects upload_collection to be called with for a file: the
\* rich_content texts of the messages of its Dataset whose content is no
\* placeholder, in order, a payload of four fields for each, and wait set;
\* <<>> for a file that has no Dataset or a message without a date
ExpectedUpload ==
    [file \in FileChoices |->
        LET made == from_txt_file(file, "en")
        IN  IF made.ok /\ ~ MetadataRaises(made.data)
            THEN LET d == made.data
                     kept == SelectSeq(d.messages,
                                 LAMBDA m : ~ InList(m.content,
                                                     d.not_found_placeholders))
                     texts == [j \in 1..Len(kept) |->
                                  rich_content(kept[j]).text]
                 IN  <<[vectors |-> texts,
                        payload |-> [j \in 1..Len(kept) |->
                            [sender |-> kept[j].sender,
                             when |-> strftime(message_date(kept[j])),
                             content |-> kept[j].content,
                             document |-> texts[j]]],
                        wait |-> TRUE]>>
            ELSE <<>>]

\* C12: a persist of the vector-store loader issues one upload call with
\* wait set; its documents are the rich_content texts of the clean messages
\* of the file's Dataset, in order, and its payloads are as many; the i-th
\* payload has exactly the fields sender, when, content and document, taken
\* from the i-th clean message, with document the i-th document text; no
\* uploaded content is a placeholder.
C12_UploadOfCleanMessages ==
    /\ \A i \in 1..Len(calls) :
           calls[i].op = "upload_collection"
           => LET file == loader[calls[i].by].self.wa_files[calls[i].file]
                  args == calls[i].args
              IN  /\ args = ExpectedUpload[file]
                  /\ Len(args) = 1
                  /\ Len(args[1].vectors) = Len(args[1].payload)
                  /\ \A j \in 1..Len(args[1].payload) :
                         /\ DOMAIN args[1].payload[j] =
                                {"sender", "when", "content", "document"}
                         /\ args[1].payload[j].document = args[1].vectors[j]
                         /\ ~ InList(args[1].payload[j].content,
                                     KNOWN_NOT_FOUND_PLACEHOLDERS("en"))
    /\ \A l \in Loaders :
           loader[l].kind = "qdrant"
           => \A r \in 1..Len(persisted[l]) :
                  \A f \in 1..Len(loader[l].self.wa_files) :
                      /\ Cardinality(UploadsFor(l, r, f)) <= 1
                      /\ f \in persisted[l][r]
                             => \E i \in UploadsFor(l, r, f) : calls[i].ok

\* the chat file was persisted: two documents were uploaded, the first the
\* text of 'hi' sent on Wednesday 1 February 2023, and 'image omitted' none
C12_Witness ==
    \E i \in 1..Len(calls) :
        /\ calls[i].op = "upload_collection"
        /\ calls[i].ok
        /\ loader[calls[i].by].self.wa_files[calls[i].file] = FileChat
        /\ calls[i].file \in persisted[calls[i].by][calls[i].run]
        /\ Len(calls[i].args[1].vectors) = 2
        /\ calls[i].args[1].vectors[1] =
               <<"S", "e", "n", "d", "e", "r", ":", " ", "A", "\n", "W",
               "h", "e", "n", ":", " ", "W", "e", "d", "n", "e",
               "s", "d", "a", "y", ",", " ", "0", "1", " ", "F",
               "e", "b", "r", "u", "a", "r", "y", " ", "2", "0",
               "2", "3", "\n", "M", "e", "s", "s", "a", "g", "e",
               ":", " ", "h", "i">>
        /\ calls[i].args[1].payload[1].when =
               <<"W", "e", "d", "n", "e", "s", "d", "a", "y", ",", " ", "0",
               "1", " ", "F", "e", "b", "r", "u", "a", "r", "y",
               " ", "2", "0", "2", "3">>
        /\ calls[i].args[1].payload[2].content = ImmagineOmessa

(***************************************************************************)
(* The strictness load_data runs with                                      *)
(***************************************************************************)

\* C13: while load_data runs, the strictness its except clause reads
\* (self.raise_errors) is the raise_errors value the loader was constructed
\* with, for the in-memory loader and for the vector-store loader.
C13_StrictnessIsTheGivenFlag ==
    \A l \in Loaders :
        pc[l] # "idle" => loader[l].self.raise_errors = loader[l].given

(***************************************************************************)
(* Two loaders and one collection                                          *)
(***************************************************************************)

\* C14: the check and the creation are two steps. After a create_collection
\* that succeeded, a further create_collection is issued only by another
\* loader, one whose collection_exists was answered before that creation; a
\* loader on its own never issues a second creation after one that succeeded.
C14_DoubleCreateOnlyByRace ==
    \A c1, c2 \in CallsOf("create_collection") :
        (c1 < c2 /\ calls[c1].ok)
        => /\ calls[c2].by # calls[c1].by
           /\ \E e \in CallsOf("collection_exists") :
                 /\ SamePersist(e, c2)
                 /\ calls[e].ok
                 /\ e < c1

\* two loaders found the collection absent, then both created it
C14_Witness ==
    /\ ~existed
    /\ \E e1, e2 \in CallsOf("collection_exists") :
          \E c1, c2 \in CallsOf("create_collection") :
              /\ calls[e1].by # calls[e2].by
              /\ SamePersist(e1, c1) /\ SamePersist(e2, c2)
              /\ e1 < c1 /\ e2 < c1 /\ c1 < c2
              /\ calls[c1].ok /\ calls[c2].ok

(***************************************************************************)
(* One Message: its fields, and the message_date that cached_property      *)
(* stores in the instance at the first successful read                     *)
(***************************************************************************)

StampFirst == SubSeq(HeadValid, 2, 19)
StampSecond == <<"0", "2">> \o SubSeq(HeadValid, 4, 19)
StampLeapDay == <<"2", "9", "/", "0", "2", "/", "2", "4">>
                    \o SubSeq(HeadValid, 10, 19)
StampBadDate == SubSeq(HeadBadDate, 2, 19)

Timestamps == {StampFirst, StampSecond, StampLeapDay, StampBadDate}
Senders == {<<"A">>, <<"B">>}
Contents == {<<"h", "i">>, <<"y", "o">>}

\* WhatsappMessage(timestamp=..., sender=..., content=...)
InitMessage ==
    /\ IdleParse
    /\ IdleData
    /\ IdleLoaders
    /\ IdleClient
    /\ \E timestamp \in Timestamps, sender \in Senders, content \in Contents :
          wa_message = <<WhatsappMessage(timestamp, sender, content)>>
    /\ date_cache = <<>>
    /\ last_read = <<>>

\* self.message_date: the stored value when there is one, else the function
\* is run
MessageDateAttribute ==
    IF date_cache # <<>>
    THEN date_cache[1]
    ELSE message_date(wa_message[1])

\* cached_property stores what the function returned; nothing when it raised
StoredAfterRead ==
    IF MessageDateAttribute.ok THEN <<MessageDateAttribute>> ELSE date_cache

\* msg.message_date is read
ReadMessageDate ==
    /\ last_read' = <<[attribute |-> "message_date",
                       value |-> MessageDateAttribute]>>
    /\ date_cache' = StoredAfterRead
    /\ UNCHANGED <<parseVars, dataVars, loaderVars, clientVars, wa_message>>

\* msg.rich_content is read
ReadRichContent ==
    /\ last_read' = <<[attribute |-> "rich_content",
                       value |-> RichText(wa_message[1],
                                          MessageDateAttribute)]>>
    /\ date_cache' = StoredAfterRead
    /\ UNCHANGED <<parseVars, dataVars, loaderVars, clientVars, wa_message>>

\* msg.timestamp = ..., msg.sender = ..., msg.content = ... (the model class
\* is not frozen)
SetTimestamp ==
    /\ \E timestamp \in Timestamps \ {wa_message[1].timestamp} :
          wa_message' = <<[wa_message[1] EXCEPT !.timestamp = timestamp]>>
    /\ last_read' = <<>>
    /\ UNCHANGED <<parseVars, dataVars, loaderVars, clientVars, date_cache>>

SetSender ==
    /\ \E sender \in Senders \ {wa_message[1].sender} :
          wa_message' = <<[wa_message[1] EXCEPT !.sender = sender]>>
    /\ last_read' = <<>>
    /\ UNCHANGED <<parseVars, dataVars, loaderVars, clientVars, date_cache>>

SetContent ==
    /\ \E content \in Contents \ {wa_message[1].content} :
          wa_message' = <<[wa_message[1] EXCEPT !.content = content]>>
    /\ last_read' = <<>>
    /\ UNCHANGED <<parseVars, dataVars, loaderVars, clientVars, date_cache>>

NextMessage ==
    \/ ReadMessageDate
    \/ ReadRichContent
    \/ SetTimestamp
    \/ SetSender
    \/ SetContent

SpecMessage == InitMessage /\ [][NextMessage]_vars

\* C15: a derived value read from a Message is the one its current fields
\* give, whatever was done to the Message before: message_date is the date
\* parsed from timestamp, rich_content the text built from sender, that date
\* and content.
C15_DerivedFromCurrentFields ==
    last_read # <<>>
    => last_read[1].value =
           IF last_read[1].attribute = "message_date"
           THEN message_date(wa_message[1])
           ELSE rich_content(wa_message[1])

(***************************************************************************)
(* The client the vector-store loader is constructed with                  *)
(***************************************************************************)

\* None, and a value that is given, as <<>> and <<value>>
None == <<>>

\* the port set when a local path is given (also the default of the argument)
DefaultPort == 6333

LocalPathWarning ==
    "Local path provided, using local Qdrant instance. Host, port, https, and api_key parameters will be ignored."

Hosts == {<<"localhost">>, <<"qdrant.example">>}
Ports == {DefaultPort, DefaultPort + 1, 443}
ApiKeys == {None, <<"secret">>}
LocalPaths == {None, <<"">>, <<"./qdrant_db">>}

\* faulty variant: the host given is kept beside the local path
HostKept(host, local_path) == host
\* QdrantDataLoader.__init__: host as handed to AsyncQdrantClient
HostUsed(host, local_path) == IF local_path # None THEN None ELSE host

PortUsed(port, local_path) == IF local_path # None THEN DefaultPort ELSE port

HttpsUsed(https, local_path) == IF local_path # None THEN FALSE ELSE https

ApiKeyUsed(api_key, local_path) == IF local_path # None THEN None ELSE api_key

\* AsyncQdrantClient(host=host, port=port, https=https, api_key=api_key,
\* path=local_path)
AsyncQdrantClient(host, port, https, api_key, path) ==
    [host |-> host, port |-> port, https |-> https, api_key |-> api_key,
     path |-> path]

\* the arguments of QdrantDataLoader(...) that concern the connection
InitClient ==
    /\ IdleParse
    /\ IdleData
    /\ IdleLoaders
    /\ IdleMessage
    /\ client_args \in [host : Hosts, port : Ports, https : BOOLEAN,
                        api_key : ApiKeys, local_path : LocalPaths]
    /\ client = <<>>
    /\ warnings = <<>>

\* QdrantDataLoader.__init__ from the test of local_path to the client
ConstructClient ==
    /\ client = <<>>
    /\ LET a == client_args
       IN  /\ warnings' = IF a.local_path # None
                          THEN Append(warnings, LocalPathWarning)
                          ELSE warnings
           /\ client' = <<AsyncQdrantClient(
                              HostUsed(a.host, a.local_path),
                              PortUsed(a.port, a.local_path),
                              HttpsUsed(a.https, a.local_path),
                              ApiKeyUsed(a.api_key, a.local_path),
                              a.local_path)>>
    /\ UNCHANGED <<parseVars, dataVars, loaderVars, messageVars, client_args>>

NextClient == ConstructClient

SpecClient == InitClient /\ [][NextClient]_vars

\* C16: when a local path is given, the client is built with that path, no
\* host, port 6333, TLS off and no API key, whatever network parameters were
\* given, and one warning is logged; when none is given, the client is built
\* with the network parameters as given and no path, and nothing is logged.
C16_LocalPathWins ==
    client # <<>>
    => IF client_args.local_path # <<>>
       THEN /\ client[1] = [host |-> <<>>, port |-> 6333, https |-> FALSE,
                            api_key |-> <<>>,
                            path |-> client_args.local_path]
            /\ warnings = <<LocalPathWarning>>
       ELSE /\ client[1] = [host |-> client_args.host,
                            port |-> client_args.port,
                            https |-> client_args.https,
                            api_key |-> client_args.api_key,
                            path |-> <<>>]
            /\ warnings = <<>>

\* a remote host, another port, TLS and a key were given beside a local
\* path: the client was built for the path alone
C16_Witness ==
    /\ client_args = [host |-> <<"qdrant.example">>, port |-> 443,
                      https |-> TRUE, api_key |-> <<"secret">>,
                      local_path |-> <<"./qdrant_db">>]
    /\ client # <<>>
    /\ client[1].path = <<"./qdrant_db">>
    /\ client[1].host = <<>>
    /\ warnings # <<>>

(***************************************************************************)
(* Row failures and the strictness of load_data                            *)
(***************************************************************************)

\* from_txt_file returns a Dataset for every readable file; what it raises
\* on the others is not InvalidRowError, and the except clause re-raises it
\* under either value of raise_errors
NoRowErrorFromFiles ==
    \A file \in FileChoices, raise_errors \in BOOLEAN :
        LET made == from_txt_file(file, "en")
        IN  IF file.readable
            THEN made.ok
            ELSE /\ made.exc # "InvalidRowError"
                 /\ Handler(made.exc, raise_errors) = "raise"

EnglishPlaceholders ==
    {ImageOmitted, VideoOmitted, AudioOmitted, DocumentOmitted}

PlaceholdersHeld(wa_data) ==
    {wa_data.not_found_placeholders[k] :
         k \in 1..Len(wa_data.not_found_placeholders)}

\* the messages of a file that are not English placeholders, in file order
NotEnglishPlaceholder(message) == message.content \notin EnglishPlaceholders
KeptUnderEnglish ==
    [file \in FileChoices |->
        SelectSeq(ReadLines(file.lines, <<>>).messages, NotEnglishPlaceholder)]

\* C18: every Dataset load_data builds holds the English placeholder set,
\* whatever the files: in a stored Dataset a message with an Italian
\* placeholder for content is clean and one with an English placeholder is
\* not, and the contents uploaded for a file are those of its messages that
\* are not English placeholders, Italian placeholders included.
C18_EnglishPlaceholdersOnly ==
    /\ \A l \in Loaders :
           /\ data[l] # <<>> => PlaceholdersHeld(data[l][1]) = EnglishPlaceholders
           /\ \A k \in 1..Len(data_storage[l]) :
                  LET stored == data_storage[l][k]
                  IN  /\ PlaceholdersHeld(stored) = EnglishPlaceholders
                      /\ \A i \in 1..Len(stored.messages) :
                             InList(stored.messages[i], clean_messages(stored))
                                 <=> NotEnglishPlaceholder(stored.messages[i])
    /\ \A c \in CallsOf("upload_collection") :
           LET kept == KeptUnderEnglish[Files(calls[c].by)[calls[c].file]]
               payload == calls[c].args[1].payload
           IN  /\ Len(payload) = Len(kept)
               /\ \A j \in 1..Len(kept) :
                      /\ payload[j].content = kept[j].content
                      /\ payload[j].sender = kept[j].sender

\* the chat file holds 'image omitted' and 'immagine omessa': the second was
\* uploaded and acknowledged, the first was not
C18_Witness ==
    \E c \in CallsOf("upload_collection") :
        /\ calls[c].ok
        /\ Files(calls[c].by)[calls[c].file] = FileChat
        /\ \E i \in 1..Len(FileChat.lines) :
              from_raw(FileChat.lines[i]).msg.content = ImageOmitted
        /\ \E j \in 1..Len(calls[c].args[1].payload) :
              calls[c].args[1].payload[j].content = ImmagineOmessa
        /\ \A j \in 1..Len(calls[c].args[1].payload) :
              calls[c].args[1].payload[j].content # ImageOmitted
=============================================================================
